---- MODULE Spec2Model ----
(***************************************************************************)
(* Huet's zipper (src/src/lib.rs): Tree / Path / Location, the movement    *)
(* and edit operations of Location, and the memoizing wrapper MemoLocation.*)
(*                                                                         *)
(* Option<X> is a sequence of length 0 (None) or 1 (Some(x)).              *)
(* A Vec is a sequence, its first element at index 1.                      *)
(***************************************************************************)
EXTENDS Integers, Sequences, FiniteSets, TLC

VARIABLES
    loc,      \* the plain Location the caller holds
    orig,     \* the Location the caller constructed first
    edits,    \* how many successful edit calls were made on loc so far
    last,     \* the last Navigation Engine call: op, self, tree, n, result
    wrappers, \* the MemoLocation values the caller holds
    caches,   \* caches[c]: the HashMap behind the c-th Rc<RefCell<..>>
    bases,    \* bases[c]: the Location given to the with_memo that made cache c
    onlyBase, \* onlyBase[c]: every get_nth through cache c so far was made on
              \* a clone of the wrapper with_memo returned
    first,    \* first[c][n]: what the first successful get_nth(n) through
              \* cache c returned
    calls,    \* how many Memoizing Wrapper calls were made so far
    mlast     \* the last Memoizing Wrapper call

vars ==
    <<loc, orig, edits, last, wrappers, caches, bases, onlyBase, first, calls,
      mlast>>

engineVars == <<loc, orig, edits, last>>
memoVars == <<wrappers, caches, bases, onlyBase, first, calls, mlast>>

----------------------------------------------------------------------------
(* Bounds *)

MaxEdits == 1
MaxIndex == 3
MaxCaches == 2
MaxCalls == 6

----------------------------------------------------------------------------
(* Option *)

None == <<>>
Some(x) == <<x>>
Unwrap(o) == o[1]

----------------------------------------------------------------------------
(* enum Tree, enum Path, struct Location *)

Item(v) == [tag |-> "Item", val |-> v]
Section(ts) == [tag |-> "Section", children |-> ts]

Top == [tag |-> "Top"]
Node(l, r, p) == [tag |-> "Node", left |-> l, right |-> r, path |-> p]

Location(c, p) == [cursor |-> c, path |-> p]

RECURSIVE Reverse(_)
Reverse(s) == IF s = <<>> THEN <<>> ELSE Reverse(Tail(s)) \o <<Head(s)>>

----------------------------------------------------------------------------
(* impl Location *)

(* new that leaves the right sibling list empty *)
new_empty_right(tree) == Location(tree, Node(<<>>, <<>>, Top))

(* new that puts the tree directly at Top *)
new_at_top(tree) == Location(tree, Top)

new(tree) == Location(tree, Node(<<>>, <<tree>>, Top))

(* go_left that forgets to push the old cursor onto right *)
go_left_drop_cursor(self) ==
    IF self.path.tag = "Top" THEN None
    ELSE IF self.path.left = <<>> THEN None
    ELSE Some(Location(Head(self.path.left),
                       Node(Tail(self.path.left),
                            self.path.right,
                            self.path.path)))

go_left(self) ==
    IF self.path.tag = "Top" THEN None
    ELSE IF self.path.left = <<>> THEN None
    ELSE Some(Location(Head(self.path.left),
                       Node(Tail(self.path.left),
                            <<self.cursor>> \o self.path.right,
                            self.path.path)))

(* go_right that remembers only the sibling it has just left *)
go_right_drop_left(self) ==
    IF self.path.tag = "Top" THEN None
    ELSE IF self.path.right = <<>> THEN None
    ELSE Some(Location(Head(self.path.right),
                       Node(<<self.cursor>>,
                            Tail(self.path.right),
                            self.path.path)))

(* go_right that appends the old cursor to left: farthest, not nearest *)
go_right_append_cursor(self) ==
    IF self.path.tag = "Top" THEN None
    ELSE IF self.path.right = <<>> THEN None
    ELSE Some(Location(Head(self.path.right),
                       Node(self.path.left \o <<self.cursor>>,
                            Tail(self.path.right),
                            self.path.path)))

go_right(self) ==
    IF self.path.tag = "Top" THEN None
    ELSE IF self.path.right = <<>> THEN None
    ELSE Some(Location(Head(self.path.right),
                       Node(<<self.cursor>> \o self.path.left,
                            Tail(self.path.right),
                            self.path.path)))

(* go_up that wraps the cursor in a new section when there is no parent *)
go_up_wrap_at_top(self) ==
    IF self.path.tag = "Top"
    THEN Some(Location(Section(<<self.cursor>>), Top))
    ELSE Some(Location(Section(Reverse(self.path.left) \o <<self.cursor>>
                                \o self.path.right),
                       self.path.path))

(* go_up that leaves the right siblings out of the rebuilt section *)
go_up_drop_right(self) ==
    IF self.path.tag = "Top" THEN None
    ELSE Some(Location(Section(Reverse(self.path.left) \o <<self.cursor>>),
                       self.path.path))

(* go_up that forgets left is stored nearest-first *)
go_up_unreversed(self) ==
    IF self.path.tag = "Top" THEN None
    ELSE Some(Location(Section(self.path.left \o <<self.cursor>>
                                \o self.path.right),
                       self.path.path))

go_up(self) ==
    IF self.path.tag = "Top" THEN None
    ELSE Some(Location(Section(Reverse(self.path.left) \o <<self.cursor>>
                                \o self.path.right),
                       self.path.path))

(* go_down that starts a new context instead of pushing one level *)
go_down_top_parent(self) ==
    IF self.cursor.tag = "Item" THEN None
    ELSE IF self.cursor.children = <<>> THEN None
    ELSE Some(Location(Head(self.cursor.children),
                       Node(<<>>, Tail(self.cursor.children), Top)))

(* go_down that descends into an empty section too *)
go_down_into_empty(self) ==
    IF self.cursor.tag = "Item" THEN None
    ELSE IF self.cursor.children = <<>>
         THEN Some(Location(self.cursor, Node(<<>>, <<>>, self.path)))
    ELSE Some(Location(Head(self.cursor.children),
                       Node(<<>>, Tail(self.cursor.children), self.path)))

(* go_down that keeps the first child among the right siblings *)
go_down_keep_first(self) ==
    IF self.cursor.tag = "Item" THEN None
    ELSE IF self.cursor.children = <<>> THEN None
    ELSE Some(Location(Head(self.cursor.children),
                       Node(<<>>, self.cursor.children, self.path)))

go_down(self) ==
    IF self.cursor.tag = "Item" THEN None
    ELSE IF self.cursor.children = <<>> THEN None
    ELSE Some(Location(Head(self.cursor.children),
                       Node(<<>>, Tail(self.cursor.children), self.path)))

(* get_nth that takes n as one-based *)
RECURSIVE get_nth_one_based(_, _)
get_nth_one_based(self, n) ==
    IF n <= 1 THEN go_down(self)
    ELSE LET r == get_nth_one_based(self, n - 1)
         IN  IF r = None THEN None ELSE go_right(Unwrap(r))

RECURSIVE get_nth(_, _)
get_nth(self, n) ==
    IF n = 0 THEN go_down(self)
    ELSE LET r == get_nth(self, n - 1)
         IN  IF r = None THEN None ELSE go_right(Unwrap(r))

(* change that resets the path to Top *)
change_at_top(self, tree) == Location(tree, Top)

change(self, tree) == Location(tree, self.path)

insert_right(self, tree) ==
    IF self.path.tag = "Top" THEN None
    ELSE Some(Location(self.cursor,
                       Node(self.path.left,
                            <<tree>> \o self.path.right,
                            self.path.path)))

(* insert_left that puts the new tree on the other side of the cursor *)
insert_left_as_right(self, tree) ==
    IF self.path.tag = "Top" THEN None
    ELSE Some(Location(self.cursor,
                       Node(self.path.left,
                            <<tree>> \o self.path.right,
                            self.path.path)))

(* insert_left that appends: the new tree becomes the farthest sibling *)
insert_left_append(self, tree) ==
    IF self.path.tag = "Top" THEN None
    ELSE Some(Location(self.cursor,
                       Node(self.path.left \o <<tree>>,
                            self.path.right,
                            self.path.path)))

insert_left(self, tree) ==
    IF self.path.tag = "Top" THEN None
    ELSE Some(Location(self.cursor,
                       Node(<<tree>> \o self.path.left,
                            self.path.right,
                            self.path.path)))

(* insert_down that splits off the first child, as go_down does *)
insert_down_skip_first(self, tree) ==
    IF self.cursor.tag = "Item" THEN None
    ELSE Some(Location(tree,
                       Node(<<>>,
                            IF self.cursor.children = <<>> THEN <<>>
                            ELSE Tail(self.cursor.children),
                            self.path)))

(* insert_down that refuses an empty section, as go_down does *)
insert_down_nonempty_only(self, tree) ==
    IF self.cursor.tag = "Item" THEN None
    ELSE IF self.cursor.children = <<>> THEN None
    ELSE Some(Location(tree, Node(<<>>, self.cursor.children, self.path)))

insert_down(self, tree) ==
    IF self.cursor.tag = "Item" THEN None
    ELSE Some(Location(tree, Node(<<>>, self.cursor.children, self.path)))

(* delete that moves to the right sibling and leaves it in right as well *)
delete_keep_right(self) ==
    IF self.path.tag = "Top" THEN None
    ELSE IF self.path.right # <<>>
         THEN Some(Location(Head(self.path.right),
                            Node(self.path.left, self.path.right,
                                 self.path.path)))
    ELSE IF self.path.left # <<>>
         THEN Some(Location(Head(self.path.left),
                            Node(Tail(self.path.left), <<>>, self.path.path)))
    ELSE Some(Location(Section(<<>>), self.path.path))

(* delete that empties the cursor when there is no enclosing Node *)
delete_at_top(self) ==
    IF self.path.tag = "Top" THEN Some(Location(Section(<<>>), self.path))
    ELSE IF self.path.right # <<>>
         THEN Some(Location(Head(self.path.right),
                            Node(self.path.left, Tail(self.path.right),
                                 self.path.path)))
    ELSE IF self.path.left # <<>>
         THEN Some(Location(Head(self.path.left),
                            Node(Tail(self.path.left), <<>>, self.path.path)))
    ELSE Some(Location(Section(<<>>), self.path.path))

(* delete that tries the left sibling before the right one *)
delete_left_first(self) ==
    IF self.path.tag = "Top" THEN None
    ELSE IF self.path.left # <<>>
         THEN Some(Location(Head(self.path.left),
                            Node(Tail(self.path.left), self.path.right,
                                 self.path.path)))
    ELSE IF self.path.right # <<>>
         THEN Some(Location(Head(self.path.right),
                            Node(<<>>, Tail(self.path.right), self.path.path)))
    ELSE Some(Location(Section(<<>>), self.path.path))

delete(self) ==
    IF self.path.tag = "Top" THEN None
    ELSE IF self.path.right # <<>>
         THEN Some(Location(Head(self.path.right),
                            Node(self.path.left, Tail(self.path.right),
                                 self.path.path)))
    ELSE IF self.path.left # <<>>
         THEN Some(Location(Head(self.path.left),
                            Node(Tail(self.path.left), <<>>, self.path.path)))
    ELSE Some(Location(Section(<<>>), self.path.path))

----------------------------------------------------------------------------
(* impl MemoLocation: a wrapper is [location, cache], cache an index into  *)
(* caches (the Rc<RefCell<HashMap<usize, Rc<Location>>>> it points to).    *)

MemoLocation(l, c) == [location |-> l, cache |-> c]

EmptyCache == <<>>
CacheGet(m, n) == IF n \in DOMAIN m THEN Some(m[n]) ELSE None
CacheInsert(m, n, v) == [k \in DOMAIN m \cup {n} |-> IF k = n THEN v ELSE m[k]]

(* for _ in 0..n { loc = loc.go_right()?; } *)
RECURSIVE right_loop(_, _)
right_loop(l, k) ==
    IF k = 0 THEN Some(l)
    ELSE LET r == go_right(l)
         IN  IF r = None THEN None ELSE right_loop(Unwrap(r), k - 1)

(* the walk with the range 1..n: one step right too few *)
memo_walk_skip_first(location, n) ==
    IF n = 0 THEN go_down(location)
    ELSE LET d == go_down(location)
         IN  IF d = None THEN None ELSE right_loop(Unwrap(d), n - 1)

(* the walk with an inclusive range, for _ in 0..=n *)
memo_walk_inclusive(location, n) ==
    IF n = 0 THEN go_down(location)
    ELSE LET d == go_down(location)
         IN  IF d = None THEN None ELSE right_loop(Unwrap(d), n + 1)

(* "Calculate the result": the walk made on a cache miss *)
memo_walk(location, n) ==
    IF n = 0 THEN go_down(location)
    ELSE LET d == go_down(location)
         IN  IF d = None THEN None ELSE right_loop(Unwrap(d), n)

(* get_nth that never looks the index up: it walks and stores every time *)
memo_get_nth_no_lookup(self, m, n) ==
    LET result == memo_walk(self.location, n)
    IN  IF result # None
        THEN [hit |-> FALSE, result |-> result,
              cache |-> CacheInsert(m, n, Unwrap(result))]
        ELSE [hit |-> FALSE, result |-> None, cache |-> m]

(* get_nth that stores where the walk started when the walk fails *)
memo_get_nth_cache_failure(self, m, n) ==
    LET cached == CacheGet(m, n)
    IN  IF cached # None
        THEN [hit |-> TRUE, result |-> cached, cache |-> m]
        ELSE LET result == memo_walk(self.location, n)
             IN  IF result # None
                 THEN [hit |-> FALSE, result |-> result,
                       cache |-> CacheInsert(m, n, Unwrap(result))]
                 ELSE [hit |-> FALSE, result |-> None,
                       cache |-> CacheInsert(m, n, self.location)]

(* get_nth whose miss clears the map before it stores the new entry *)
memo_get_nth_evict(self, m, n) ==
    LET cached == CacheGet(m, n)
    IN  IF cached # None
        THEN [hit |-> TRUE, result |-> cached, cache |-> m]
        ELSE LET result == memo_walk(self.location, n)
             IN  IF result # None
                 THEN [hit |-> FALSE, result |-> result,
                       cache |-> CacheInsert(EmptyCache, n, Unwrap(result))]
                 ELSE [hit |-> FALSE, result |-> None, cache |-> m]

(* MemoLocation::get_nth on wrapper self whose cache holds m: whether the  *)
(* cache answered, the location returned, and the cache afterwards.        *)
memo_get_nth(self, m, n) ==
    LET cached == CacheGet(m, n)
    IN  IF cached # None
        THEN [hit |-> TRUE, result |-> cached, cache |-> m]
        ELSE LET result == memo_walk(self.location, n)
             IN  IF result # None
                 THEN [hit |-> FALSE, result |-> result,
                       cache |-> CacheInsert(m, n, Unwrap(result))]
                 ELSE [hit |-> FALSE, result |-> None, cache |-> m]

(* with_memo that hands every wrapper the first cache *)
with_memo_one_cache(self, c) == MemoLocation(self, 1)

(* c: the Rc<RefCell<HashMap>> that with_memo allocates *)
with_memo(self, c) == MemoLocation(self, c)

(* Rc::try_unwrap: the value when this is the only strong reference *)
try_unwrap(rc, strong) ==
    IF strong = 1 THEN [ok |-> TRUE, value |-> rc]
    ELSE [ok |-> FALSE, rc |-> rc]

(* into_inner that builds a fresh location round the cursor when shared *)
into_inner_rewrap(self, strong) ==
    LET r == try_unwrap(self.location, strong)
    IN  IF r.ok THEN r.value ELSE new(r.rc.cursor)

(* strong: the strong count of self.location when into_inner is called *)
into_inner(self, strong) ==
    LET r == try_unwrap(self.location, strong)
    IN  IF r.ok THEN r.value ELSE Location(r.rc.cursor, r.rc.path)

----------------------------------------------------------------------------
(* The trees and locations the caller starts from *)

SmallTrees ==
    { Item("a"),
      Section(<<>>),
      Section(<<Item("a")>>),
      Section(<<Item("a"), Item("+"), Item("b")>>),
      Section(<<Section(<<Item("a"), Item("b")>>), Item("c")>>),
      Section(<<Item("a"), Section(<<Item("b1"), Item("b2")>>), Item("c")>>) }

MemoTrees ==
    { Item("a"),
      Section(<<Item("a"), Item("+"), Item("b")>>),
      Section(<<Section(<<Item("a"), Item("b")>>), Item("c")>>) }

ArgTrees == { Item("."), Section(<<Item(".")>>) }

NoTree == Item("")

Call(op, self, tree, n, result) ==
    [op |-> op, self |-> self, tree |-> tree, n |-> n, result |-> result]

NoMemoCall == [op |-> "none"]

Start(trees) ==
    /\ \E t \in trees :
         \/ /\ loc = new(t)
            /\ last = Call("new", new(t), t, 0, Some(new(t)))
         \/ /\ loc = Location(t, Top)
            /\ last = Call("literal", Location(t, Top), t, 0,
                           Some(Location(t, Top)))
    /\ orig = loc
    /\ edits = 0
    /\ wrappers = {}
    /\ caches = <<>>
    /\ bases = <<>>
    /\ onlyBase = <<>>
    /\ first = <<>>
    /\ calls = 0
    /\ mlast = NoMemoCall

Init == Start(SmallTrees)

(* A call consumes self; the caller keeps what it returns, and keeps a    *)
(* clone of self when the call returns None.                               *)
Moved(op, n, result) ==
    /\ last' = Call(op, loc, NoTree, n, result)
    /\ loc' = IF result = None THEN loc ELSE Unwrap(result)
    /\ UNCHANGED <<orig, edits>>
    /\ UNCHANGED memoVars

Edited(op, tree, result) ==
    /\ edits < MaxEdits
    /\ last' = Call(op, loc, tree, 0, result)
    /\ loc' = IF result = None THEN loc ELSE Unwrap(result)
    /\ edits' = IF result = None THEN edits ELSE edits + 1
    /\ UNCHANGED orig
    /\ UNCHANGED memoVars

GoLeft == Moved("go_left", 0, go_left(loc))
GoRight == Moved("go_right", 0, go_right(loc))
GoUp == Moved("go_up", 0, go_up(loc))
GoDown == Moved("go_down", 0, go_down(loc))
GetNth == \E n \in 0..MaxIndex : Moved("get_nth", n, get_nth(loc, n))
Change == \E t \in ArgTrees : Edited("change", t, Some(change(loc, t)))
InsertRight == \E t \in ArgTrees : Edited("insert_right", t, insert_right(loc, t))
InsertLeft == \E t \in ArgTrees : Edited("insert_left", t, insert_left(loc, t))
InsertDown == \E t \in ArgTrees : Edited("insert_down", t, insert_down(loc, t))
Delete == Edited("delete", NoTree, delete(loc))

Next ==
    \/ GoLeft
    \/ GoRight
    \/ GoUp
    \/ GoDown
    \/ GetNth
    \/ Change
    \/ InsertRight
    \/ InsertLeft
    \/ InsertDown
    \/ Delete

Spec == Init /\ [][Next]_vars

----------------------------------------------------------------------------
(* The Memoizing Wrapper's calls. Every call consumes its wrapper; the      *)
(* caller makes each call on a clone, so it still holds every wrapper it   *)
(* ever obtained and may make the next call on any of them.                *)

(* again: what an earlier successful get_nth(n) through the same cache     *)
(* returned, None when this is the first; pre: the caches before the call. *)
(* held: the wrappers held before the call.                                *)
MemoCall(op, self, n, hit, result, again) ==
    [op |-> op, self |-> self, n |-> n, hit |-> hit, result |-> result,
     again |-> again, pre |-> caches, held |-> wrappers]

(* The strong count of self.location: the wrapper itself, the clone the    *)
(* caller keeps, and the cache entry that shares the Rc (get_nth returns   *)
(* wrappers round the Rc it stored or found in the cache).                 *)
InCache(self) ==
    \E k \in DOMAIN caches[self.cache] : caches[self.cache][k] = self.location

StrongCount(self, keep) ==
    1 + (IF keep THEN 1 ELSE 0) + (IF InCache(self) THEN 1 ELSE 0)

WithMemo ==
    /\ calls < MaxCalls
    /\ calls' = calls + 1
    /\ Len(caches) < MaxCaches
    /\ LET c == Len(caches) + 1
           w == with_memo(loc, c)
       IN  /\ caches' = Append(caches, EmptyCache)
           /\ bases' = Append(bases, loc)
           /\ onlyBase' = Append(onlyBase, TRUE)
           /\ first' = Append(first, EmptyCache)
           /\ wrappers' = wrappers \cup {w}
           /\ mlast' = MemoCall("with_memo", w, 0, FALSE, Some(w), None)
    /\ UNCHANGED engineVars

MemoGetNth ==
    \E self \in wrappers, n \in 0..MaxIndex :
        LET r == memo_get_nth(self, caches[self.cache], n)
            out == IF r.result = None THEN None
                   ELSE Some(MemoLocation(Unwrap(r.result), self.cache))
        IN  /\ calls < MaxCalls
            /\ calls' = calls + 1
            /\ wrappers' = IF out = None THEN wrappers
                           ELSE wrappers \cup {Unwrap(out)}
            /\ caches' = [caches EXCEPT ![self.cache] = r.cache]
            /\ onlyBase' = [onlyBase EXCEPT ![self.cache] =
                                @ /\ self.location = bases[self.cache]]
            /\ first' = IF out = None \/ n \in DOMAIN first[self.cache]
                        THEN first
                        ELSE [first EXCEPT ![self.cache] =
                                  CacheInsert(@, n, Unwrap(out))]
            /\ mlast' = MemoCall("get_nth", self, n, r.hit, out,
                                 CacheGet(first[self.cache], n))
            /\ UNCHANGED bases
            /\ UNCHANGED engineVars

(* keep: the call is made on a clone and the caller still holds self;     *)
(* the call is recorded with the strong count as its n.                    *)
IntoInner ==
    \E self \in wrappers, keep \in BOOLEAN :
        /\ calls < MaxCalls
        /\ calls' = calls + 1
        /\ loc' = into_inner(self, StrongCount(self, keep))
        /\ wrappers' = IF keep THEN wrappers ELSE wrappers \ {self}
        /\ mlast' = MemoCall("into_inner", self, StrongCount(self, keep),
                             FALSE, Some(self), None)
        /\ UNCHANGED <<caches, bases, onlyBase, first>>
        /\ UNCHANGED <<orig, edits, last>>

MemoNext ==
    \/ WithMemo
    \/ MemoGetNth
    \/ IntoInner

MemoInit == Start(MemoTrees)

MemoSpec == MemoInit /\ [][MemoNext]_vars

----------------------------------------------------------------------------
(* Properties *)

(* root(L): the cursor reached by go_up until the path is Top *)
RECURSIVE Root(_)
Root(l) == IF l.path.tag = "Top" THEN l.cursor ELSE Root(Unwrap(go_up(l)))

LastSome(op) == last.op = op /\ last.result # None

(* C1: starting from cursor T at path Top, after any sequence of go_down,  *)
(* go_left, go_right, go_up (and get_nth) calls and no edit, going up to   *)
(* the top gives T again.                                                  *)
C1_MovementPreservesRoot ==
    (orig.path = Top /\ edits = 0) => Root(loc) = orig.cursor

C1_Witness ==
    /\ orig.path = Top
    /\ edits = 0
    /\ LastSome("go_right")
    /\ Len(loc.path.left) >= 2

(* C2: while every get_nth through a cache was made on a clone of the      *)
(* wrapper B.with_memo() returned, get_nth(i).into_inner() is B.get_nth(i) *)
(* as a whole location, and None exactly when B.get_nth(i) is None.        *)
C2_MemoEquivalence ==
    (mlast.op = "get_nth" /\ onlyBase[mlast.self.cache]) =>
        LET expected == get_nth(bases[mlast.self.cache], mlast.n)
        IN  IF expected = None
            THEN mlast.result = None
            ELSE /\ mlast.result # None
                 /\ into_inner(Unwrap(mlast.result), 2) = Unwrap(expected)

C2_Witness ==
    /\ mlast.op = "get_nth"
    /\ onlyBase[mlast.self.cache]
    /\ mlast.hit
    /\ mlast.n = 2
    /\ DOMAIN caches[mlast.self.cache] = {0, 1, 2}

(* C3: a get_nth(n) that misses the cache, made on a wrapper an earlier    *)
(* get_nth returned, returns B.get_nth(n) for the base B of with_memo.     *)
C3_MissUsesOriginalBase ==
    (/\ mlast.op = "get_nth"
     /\ ~mlast.hit
     /\ mlast.self.location # bases[mlast.self.cache]) =>
        LET expected == get_nth(bases[mlast.self.cache], mlast.n)
        IN  mlast.result =
                IF expected = None THEN None
                ELSE Some(MemoLocation(Unwrap(expected), mlast.self.cache))

(* C4: go_down on a location whose cursor is a Section S with a child      *)
(* succeeds, and go_up on the result gives a location with cursor S.       *)
C4_DownUpRoundTrip ==
    (/\ last.op = "go_down"
     /\ last.self.cursor.tag = "Section"
     /\ last.self.cursor.children # <<>>) =>
        /\ last.result # None
        /\ go_up(Unwrap(last.result)) # None
        /\ Unwrap(go_up(Unwrap(last.result))).cursor = last.self.cursor

C4_Witness ==
    /\ LastSome("go_down")
    /\ last.self = new(last.self.cursor)
    /\ Len(last.self.cursor.children) >= 2

(* C5: go_right then go_left, and go_left then go_right, give back the     *)
(* location they started from, cursor and path.                            *)
C5_LateralInverse ==
    /\ LastSome("go_right") => go_left(Unwrap(last.result)) = Some(last.self)
    /\ LastSome("go_left") => go_right(Unwrap(last.result)) = Some(last.self)

C5_Witness ==
    /\ LastSome("go_left")
    /\ last.self.path.right # <<>>

(* C6: on a cursor Section([c0..ck]) get_nth(i) has cursor c_i for i <= k  *)
(* and is None for i > k.                                                  *)
C6_IndexCorrespondence ==
    (last.op = "get_nth" /\ last.self.cursor.tag = "Section") =>
        LET cs == last.self.cursor.children
        IN  IF last.n < Len(cs)
            THEN /\ last.result # None
                 /\ Unwrap(last.result).cursor = cs[last.n + 1]
            ELSE last.result = None

C6_Witness ==
    /\ LastSome("get_nth")
    /\ last.n = 2
    /\ last.self.cursor.children[1] # last.self.cursor.children[3]

(* C7: a get_nth(i) made after a get_nth(i) through the same cache         *)
(* returned Some is answered from the cache, returns the same location     *)
(* and leaves the caches as they were.                                     *)
C7_MemoIdempotence ==
    (mlast.op = "get_nth" /\ mlast.again # None) =>
        /\ mlast.hit
        /\ mlast.result = mlast.again
        /\ caches = mlast.pre

C7_Witness ==
    /\ mlast.op = "get_nth"
    /\ mlast.again = Some(mlast.self)

(* C8: a get_nth whose walk fails returns None, and a get_nth that         *)
(* returns None leaves every cache as it was.                              *)
C8_FailureNotCached ==
    mlast.op = "get_nth" =>
        /\ (/\ mlast.n \notin DOMAIN mlast.pre[mlast.self.cache]
            /\ get_nth(mlast.self.location, mlast.n) = None)
               => mlast.result = None
        /\ mlast.result = None => caches = mlast.pre

C8_Witness ==
    /\ mlast.op = "get_nth"
    /\ mlast.result = None
    /\ mlast.pre[mlast.self.cache] # EmptyCache
    /\ mlast.self.location.cursor.tag = "Section"

(* C9: delete at path Node{left, right, parent} takes the right neighbour  *)
(* when there is one, else the left neighbour, else gives Section([]) at   *)
(* parent.                                                                 *)
C9_DeleteCases ==
    (last.op = "delete" /\ last.self.path.tag = "Node") =>
        LET left == last.self.path.left
            right == last.self.path.right
            parent == last.self.path.path
        IN  last.result =
                IF right # <<>>
                THEN Some(Location(right[1], Node(left, Tail(right), parent)))
                ELSE IF left # <<>>
                THEN Some(Location(left[1], Node(Tail(left), <<>>, parent)))
                ELSE Some(Location(Section(<<>>), parent))

C9_Witness ==
    /\ LastSome("delete")
    /\ last.self.path.left # <<>>
    /\ last.self.path.right # <<>>

(* C10: insert_left puts the tree in front of left, insert_right in front  *)
(* of right; the cursor, the other list and the parent stay.               *)
C10_InsertSibling ==
    /\ (last.op = "insert_left" /\ last.self.path.tag = "Node") =>
           last.result =
               Some(Location(last.self.cursor,
                             Node(<<last.tree>> \o last.self.path.left,
                                  last.self.path.right,
                                  last.self.path.path)))
    /\ (last.op = "insert_right" /\ last.self.path.tag = "Node") =>
           last.result =
               Some(Location(last.self.cursor,
                             Node(last.self.path.left,
                                  <<last.tree>> \o last.self.path.right,
                                  last.self.path.path)))

C10_Witness ==
    /\ LastSome("insert_left")
    /\ last.self.path.left # <<>>
    /\ last.self.path.right # <<>>

(* C11: insert_down(t) on a Section cursor with children cs, of any        *)
(* number, gives cursor t, left empty, right cs and the caller's path as   *)
(* parent; go_up then gives Section([t] ++ cs) at the caller's path.       *)
C11_InsertDown ==
    (last.op = "insert_down" /\ last.self.cursor.tag = "Section") =>
        LET cs == last.self.cursor.children
        IN  /\ last.result =
                   Some(Location(last.tree, Node(<<>>, cs, last.self.path)))
            /\ go_up(Unwrap(last.result)) =
                   Some(Location(Section(<<last.tree>> \o cs), last.self.path))

C11_Witness ==
    /\ LastSome("insert_down")
    /\ Len(last.self.cursor.children) >= 2
    /\ last.self.path.tag = "Node"

(* C12 as stated: insert_down(t) is None on an Item cursor and on an       *)
(* empty Section cursor.                                                   *)
C12_NoneOnItemAndEmpty ==
    (/\ last.op = "insert_down"
     /\ \/ last.self.cursor.tag = "Item"
        \/ last.self.cursor = Section(<<>>)) =>
        last.result = None

(* C12 amended: insert_down(t) is None on an Item cursor; on an empty      *)
(* Section cursor it is Some, with cursor t, no siblings and the caller's  *)
(* path as parent.                                                         *)
C12_NoneOnItemOnly ==
    last.op = "insert_down" =>
        /\ last.self.cursor.tag = "Item" => last.result = None
        /\ last.self.cursor = Section(<<>>) =>
               last.result =
                   Some(Location(last.tree, Node(<<>>, <<>>, last.self.path)))

C12_Witness ==
    /\ LastSome("insert_down")
    /\ last.self.cursor = Section(<<>>)

(* C13: change(t) gives cursor t at the path of the input, at Top too.     *)
C13_Change ==
    last.op = "change" =>
        last.result = Some(Location(last.tree, last.self.path))

C13_Witness ==
    /\ LastSome("change")
    /\ last.self.path.tag = "Node"
    /\ last.self.path.left # <<>>
    /\ last.tree.tag = "Section"

(* C14: at path Top, go_left, go_right, go_up, insert_left, insert_right   *)
(* and delete all return None.                                             *)
C14_NoneAtTop ==
    (/\ last.self.path = Top
     /\ last.op \in {"go_left", "go_right", "go_up",
                     "insert_left", "insert_right", "delete"}) =>
        last.result = None

C14_Witness ==
    /\ last.op = "delete"
    /\ last.self.path = Top
    /\ last.self.cursor.tag = "Section"

(* C15: on an Item cursor or an empty Section cursor go_down is None and   *)
(* get_nth(n) is None for every n.                                         *)
C15_NoDescent ==
    (/\ last.op \in {"go_down", "get_nth"}
     /\ \/ last.self.cursor.tag = "Item"
        \/ last.self.cursor = Section(<<>>)) =>
        last.result = None

C15_Witness ==
    /\ last.op = "get_nth"
    /\ last.n = 2
    /\ last.self.cursor = Section(<<>>)
    /\ last.self.path.tag = "Node"

(* C16: Location::new(t) has cursor t and path Node{left: [], right: [t],  *)
(* parent: Top}.                                                           *)
C16_New ==
    last.op = "new" =>
        /\ last.result =
               Some(Location(last.tree, Node(<<>>, <<last.tree>>, Top)))
        /\ loc = Unwrap(last.result)

C16_Witness ==
    /\ LastSome("new")
    /\ last.tree.tag = "Section"
    /\ last.tree.children # <<>>

(* C17: go_up on Location::new(t) gives cursor Section([t, t]) at Top.     *)
C17_UpFromNew ==
    (last.op = "go_up" /\ last.self = new(last.self.cursor)) =>
        last.result =
            Some(Location(Section(<<last.self.cursor, last.self.cursor>>),
                          Top))

C17_Witness ==
    /\ LastSome("go_up")
    /\ last.self = orig
    /\ orig = new(orig.cursor)
    /\ edits = 0

(* C20: go_left takes left[0] as cursor and pushes the old cursor onto     *)
(* right; go_right is the mirror image; each is None when its list is      *)
(* empty; the parent stays.                                                *)
C20_Lateral ==
    last.self.path.tag = "Node" =>
        LET c == last.self.cursor
            left == last.self.path.left
            right == last.self.path.right
            p == last.self.path.path
        IN  /\ last.op = "go_left" =>
                   last.result =
                       IF left = <<>> THEN None
                       ELSE Some(Location(left[1],
                                          Node(Tail(left), <<c>> \o right, p)))
            /\ last.op = "go_right" =>
                   last.result =
                       IF right = <<>> THEN None
                       ELSE Some(Location(right[1],
                                          Node(<<c>> \o left, Tail(right), p)))

C20_Witness ==
    /\ LastSome("go_right")
    /\ last.self.path.left # <<>>
    /\ Len(last.self.path.right) >= 1

(* C18: with_memo returns a wrapper round a new, empty cache and changes   *)
(* no other cache; a get_nth through one cache changes no other cache.     *)
C18_IndependentCaches ==
    /\ mlast.op = "with_memo" =>
           /\ mlast.self.cache \notin DOMAIN mlast.pre
           /\ caches[mlast.self.cache] = EmptyCache
           /\ \A c \in DOMAIN mlast.pre : caches[c] = mlast.pre[c]
    /\ mlast.op = "get_nth" =>
           \A c \in DOMAIN caches \ {mlast.self.cache} : caches[c] = mlast.pre[c]

C18_Witness ==
    /\ mlast.op = "get_nth"
    /\ Len(caches) = 2
    /\ bases[1] = bases[2]
    /\ mlast.self.cache = 2
    /\ ~mlast.hit
    /\ mlast.result # None
    /\ mlast.pre[1] # EmptyCache
    /\ mlast.n \notin DOMAIN caches[1]

(* C19: into_inner gives the wrapper's location, whether its Rc is shared  *)
(* or not, and leaves every cache and every other wrapper as it was.       *)
C19_IntoInner ==
    mlast.op = "into_inner" =>
        /\ loc = mlast.self.location
        /\ caches = mlast.pre
        /\ mlast.held \ {mlast.self} \subseteq wrappers
        /\ wrappers \subseteq mlast.held

C19_Witness ==
    /\ mlast.op = "into_inner"
    /\ mlast.n = 1
    /\ caches[mlast.self.cache] # EmptyCache
    /\ wrappers # {}

(* C21: go_up at path Node{left, right, parent} with cursor c gives        *)
(* cursor Section(reverse(left) ++ [c] ++ right) at path parent.           *)
C21_GoUp ==
    (last.op = "go_up" /\ last.self.path.tag = "Node") =>
        last.result =
            Some(Location(Section(Reverse(last.self.path.left)
                                    \o <<last.self.cursor>>
                                    \o last.self.path.right),
                          last.self.path.path))

C21_Witness ==
    /\ LastSome("go_up")
    /\ Len(last.self.path.left) >= 2
    /\ last.self.path.path.tag = "Node"

(* C22: go_down on cursor Section([c0, c1, ..., ck]) gives cursor c0, left *)
(* empty, right [c1, ..., ck] and the caller's own path as parent.         *)
C22_GoDown ==
    (/\ last.op = "go_down"
     /\ last.self.cursor.tag = "Section"
     /\ last.self.cursor.children # <<>>) =>
        LET cs == last.self.cursor.children
        IN  last.result =
                Some(Location(cs[1],
                              Node(<<>>, SubSeq(cs, 2, Len(cs)), last.self.path)))

C22_Witness ==
    /\ LastSome("go_down")
    /\ Len(last.self.cursor.children) >= 2
    /\ last.self.path.tag = "Node"
    /\ last.self.path.path.tag = "Node"

(* C23: get_nth(n) is go_down followed by n go_right steps, None as soon   *)
(* as one fails; on cursor Section([c0..ck]) at path p and i <= k the      *)
(* result has left [c(i-1), ..., c0], right [c(i+1), ..., ck], parent p;   *)
(* the wrapper's descend-then-step-right loop gives the same result.       *)
C23_GetNthWalk ==
    last.op = "get_nth" =>
        /\ last.result = memo_walk(last.self, last.n)
        /\ LET d == go_down(last.self)
           IN  last.result =
                   IF d = None THEN None ELSE right_loop(Unwrap(d), last.n)
        /\ last.result # None =>
               LET cs == last.self.cursor.children
                   i == last.n + 1
               IN  Unwrap(last.result) =
                       Location(cs[i],
                                Node(Reverse(SubSeq(cs, 1, i - 1)),
                                     SubSeq(cs, i + 1, Len(cs)),
                                     last.self.path))

C23_Witness ==
    /\ LastSome("get_nth")
    /\ last.n = 2
    /\ last.self.path.tag = "Node"

(* C24: cache validity: in every reachable state, every entry of a cache   *)
(* at key n equals B.get_nth(n) for the base B that with_memo wrapped,     *)
(* whichever wrappers sharing the cache made the get_nth calls.            *)
C24_CacheValidity ==
    \A c \in DOMAIN caches :
        \A n \in DOMAIN caches[c] :
            get_nth(bases[c], n) = Some(caches[c][n])

(* C25: cache entries are write-once: no step of any wrapper (get_nth,     *)
(* into_inner, with_memo) removes or overwrites an entry a cache holds.    *)
C25_WriteOnce ==
    [][\A c \in DOMAIN caches :
           \A n \in DOMAIN caches[c] :
               /\ c \in DOMAIN caches'
               /\ n \in DOMAIN caches'[c]
               /\ caches'[c][n] = caches[c][n]]_vars

C25_Witness ==
    /\ mlast.op = "get_nth"
    /\ ~mlast.hit
    /\ mlast.result # None
    /\ Cardinality(DOMAIN mlast.pre[mlast.self.cache]) >= 2
    /\ mlast.n \notin DOMAIN mlast.pre[mlast.self.cache]
    /\ \A n \in DOMAIN mlast.pre[mlast.self.cache] :
           caches[mlast.self.cache][n] = mlast.pre[mlast.self.cache][n]

(* C26: delete removes exactly the focused element and keeps the order of  *)
(* the others: at path Node{left, right, parent}, when a sibling exists    *)
(* delete then go_up gives Section(reverse(left) ++ right) at parent; when *)
(* none exists delete itself gives Section([]) at parent.                  *)
C26_DeleteRemovesFocus ==
    (last.op = "delete" /\ last.self.path.tag = "Node") =>
        LET p == last.self.path
        IN  /\ last.result # None
            /\ IF p.left # <<>> \/ p.right # <<>>
               THEN go_up(Unwrap(last.result)) =
                        Some(Location(Section(Reverse(p.left) \o p.right),
                                      p.path))
               ELSE Unwrap(last.result) = Location(Section(<<>>), p.path)

C26_Witness ==
    /\ LastSome("delete")
    /\ last.self.path.left # <<>>
    /\ last.self.path.right # <<>>

(* C27: at a Node path, insert_left(t) then go_left then delete gives      *)
(* back Some(L): the cursor and the whole path of the starting location.   *)
C27_InsertLeftDelete ==
    (last.op = "insert_left" /\ last.self.path.tag = "Node") =>
        /\ last.result # None
        /\ LET a == go_left(Unwrap(last.result))
           IN  /\ a # None
               /\ Unwrap(a).cursor = last.tree
               /\ delete(Unwrap(a)) = Some(last.self)

C27_Witness ==
    /\ LastSome("insert_left")
    /\ last.self.path.left # <<>>
    /\ last.self.path.right # <<>>
    /\ last.tree \notin {last.self.cursor, Head(last.self.path.left)}

(* C28: on a cursor that is a non-empty Section, go_down, then k go_right  *)
(* steps that all succeed, then go_up gives Some(L): cursor and path.      *)
C28_DownWalkUp ==
    (/\ last.op = "go_down"
     /\ last.self.cursor.tag = "Section"
     /\ last.self.cursor.children # <<>>) =>
        /\ last.result # None
        /\ \A k \in 0..MaxIndex :
               LET w == right_loop(Unwrap(last.result), k)
               IN  w # None => go_up(Unwrap(w)) = Some(last.self)

C28_Witness ==
    /\ LastSome("go_down")
    /\ last.self.path.tag = "Node"
    /\ right_loop(Unwrap(last.result), 2) # None

(* the number of Node layers of a path *)
RECURSIVE Depth(_)
Depth(path) == IF path.tag = "Top" THEN 0 ELSE 1 + Depth(path.path)

(* k successive go_up calls, None as soon as one fails *)
RECURSIVE Ups(_, _)
Ups(l, k) ==
    IF k = 0 THEN Some(l)
    ELSE LET u == go_up(l)
         IN  IF u = None THEN None ELSE Ups(Unwrap(u), k - 1)

(* C29: ascent terminates: a successful go_up shortens the chain of Node   *)
(* layers by one; go_left, go_right, change, insert_left and insert_right  *)
(* keep its length; repeated go_up reaches path Top after exactly as many  *)
(* steps as the path has Node layers, and the next go_up returns None.     *)
C29_AscentTerminates ==
    /\ LastSome("go_up") =>
           Depth(Unwrap(last.result).path) = Depth(last.self.path) - 1
    /\ \A op \in {"go_left", "go_right", "change", "insert_left", "insert_right"} :
           LastSome(op) =>
               Depth(Unwrap(last.result).path) = Depth(last.self.path)
    /\ \A k \in 0..Depth(loc.path) :
           LET u == Ups(loc, k)
           IN  /\ u # None
               /\ Depth(Unwrap(u).path) = Depth(loc.path) - k
               /\ (go_up(Unwrap(u)) = None) = (k = Depth(loc.path))

C29_Witness ==
    /\ LastSome("go_up")
    /\ Depth(last.self.path) = 2
    /\ Depth(loc.path) = 1
    /\ edits = 1
    /\ Ups(last.self, 2) # None
    /\ Unwrap(Ups(last.self, 2)).path = Top

====
